---- MODULE Spec2Model ----
(***************************************************************************)
(* PSN wishlist bot: the catalogue (games), the wishlist (wishes), the     *)
(* price history (prices) and the users table of app/models.py, kept in a  *)
(* single-writer SQLite file, and the requests that work on them:          *)
(*   resolve        Game.get_or_create inside session_scope                *)
(*   addWish        add_game -> Wish.get_or_create                         *)
(*   removeWish     Wish.delete inside session_scope                       *)
(*   recordSnapshot Price.update_price inside session_scope                *)
(*   refreshStale   Price.update_prices                                    *)
(* A request is a sequence of SQL statements and page fetches; requests of *)
(* different worker threads interleave between statements.                 *)
(***************************************************************************)
EXTENDS Integers, Sequences, FiniteSets, TLC

VARIABLES db, wdb, lock, today, req, nreq, last, first

vars == <<db, wdb, lock, today, req, nreq, last, first>>

(***************************************************************************)
(* Bounds of the model.                                                    *)
(***************************************************************************)
MaxRequests == 2
MaxSeqRequests == 3
MaxPriceRequests == 4
MaxDay == 2

Procs == {"p1", "p2"}
Users == {"u1", "u2"}

\* None / SQL NULL: of a text column, of an id, of a user
Null == <<>>
NoId == 0
NoUser == "nouser"
NoLock == "nolock"

(***************************************************************************)
(* Text.  A token is a tuple of characters; the character classes are      *)
(* those of re (\d, \w) and of str.isnumeric.                              *)
(***************************************************************************)
PSN_URL == "store.playstation.com"

\* \d: the decimal digits.  str.isnumeric also holds of the numeric characters
\* that are no decimal digits (the vulgar fraction one half stands for them),
\* and these are alphanumeric, so \w matches them.  \w matches "_" too.
DigitChars == {"1", "2"}
NumericChars == DigitChars \cup {"1/2"}
WordChars == NumericChars \cup {"A", "_"}
TokenChars == WordChars \cup {"-"}

C1 == <<"1">>
C2 == <<"2">>
P1 == <<"A", "-", "1">>

Bare(tok) == [form |-> "bare", tok |-> tok]
Url(host, locale, section, tok) ==
    [form |-> "url", host |-> host, locale |-> locale, section |-> section, tok |-> tok]

\* fullmatch(r'\d+', s)
AllDigits(tok) == Len(tok) > 0 /\ \A i \in 1..Len(tok) : tok[i] \in DigitChars
\* fullmatch(r'\d+|[\d\w-]+', s)
TokenOk(tok) == Len(tok) > 0 /\ \A i \in 1..Len(tok) : tok[i] \in TokenChars
\* fullmatch(r'[a-z\-]+', s) on the locale segment
LocaleOk(locale) == locale \in {"ru-ru", "en-us"}
\* fullmatch(r'/[a-z\-]+/(concept/\d+|product/[\w\d-]+)', path)
PathOk(raw) ==
    /\ LocaleOk(raw.locale)
    /\ \/ raw.section = "concept" /\ AllDigits(raw.tok)
       \/ raw.section = "product" /\ TokenOk(raw.tok)

\* str.isnumeric()
isnumeric(tok) == Len(tok) > 0 /\ \A i \in 1..Len(tok) : tok[i] \in NumericChars

Invalid == <<"invalid">>

\* models.py 214-225: the token the lookups use, or Invalid (ValueError)
game_id_of(raw) ==
    IF raw.form = "bare" /\ TokenOk(raw.tok) THEN raw.tok
    ELSE IF raw.form = "url" /\ raw.host = PSN_URL /\ PathOk(raw) THEN raw.tok
    ELSE Invalid

\* models.py 226-229
id_type_of(tok) == IF isnumeric(tok) THEN "concept_id" ELSE "product_id"

(***************************************************************************)
(* The storefront (the environment of get_game_info).                      *)
(***************************************************************************)
NameShort == <<"V">>
NameLong == <<"V", "+">>
Names == {NameShort, NameLong}

StoreConcepts == {C1, C2}
ConceptOfProduct(tok) == IF tok = P1 THEN C1 ELSE Null

EditionsOf(concept) == IF concept = C1 THEN {"Standard", "Deluxe"} ELSE {"Standard"}
OriginalPriceOf(edition) == IF edition = "Standard" THEN 49 ELSE 69
PosterOf(concept) == <<"poster", concept>>

\* the storefront's sale days
OnSale(day) == day % 2 = 0

\* models.py 172-181: one entry per edition
id_data(concept, sale) ==
    [e \in EditionsOf(concept) |->
        [original_price |-> OriginalPriceOf(e),
         sale_price |-> IF sale THEN OriginalPriceOf(e) - 20 ELSE OriginalPriceOf(e)]]

StopIteration == [ok |-> FALSE, error |-> "StopIteration"]
Crash == [ok |-> FALSE, error |-> "Crash"]

\* models.py 128-203: the results a fetch of the page can have.  The record
\* has the keys name, poster_url, editions and concept_id, and no other.
get_game_info(concept_id, product_id, day) ==
    LET concept == IF concept_id # Null THEN concept_id ELSE ConceptOfProduct(product_id)
        known == IF concept_id # Null THEN concept_id \in StoreConcepts
                 ELSE concept # Null
    IN  {StopIteration, Crash} \cup
        IF known
        THEN {[ok |-> TRUE,
               info |-> [name |-> n, poster_url |-> PosterOf(concept),
                         editions |-> id_data(concept, OnSale(day)),
                         concept_id |-> concept]]
               : n \in Names}
        ELSE {}

\* dict.get(key) on a game_info record
info_get(info, key) == IF key \in DOMAIN info THEN info[key] ELSE Null

(***************************************************************************)
(* The store.  db is the committed database; wdb is the database as the    *)
(* connection that holds SQLite's write lock sees it (its own uncommitted  *)
(* statements included); lock names the request whose session holds it.    *)
(***************************************************************************)
EmptyDb == [users |-> {}, games |-> {}, wishes |-> {}, prices |-> {}]

Min(S) == CHOOSE x \in S : \A y \in S : x <= y

\* models.py 42: default=lambda: str(uuid4()), applied by the INSERT
uuid4(rows) ==
    Min({i \in 1..(Cardinality(rows) + 1) : \A r \in rows : r.id # i})

\* (mutant) the columns are not declared unique
GameUniqueOk_off(games, row) == TRUE

\* models.py 124-125: unique=True, nullable=True (NULLs never collide)
GameUniqueOk(games, row) ==
    \A g \in games :
        /\ ~(row.concept_id # Null /\ g.concept_id = row.concept_id)
        /\ ~(row.product_id # Null /\ g.product_id = row.product_id)

\* models.py 334: UniqueConstraint(game_id, check_date, locale, edition)
PriceUniqueOk(prices, row) ==
    \A q \in prices :
        ~(/\ row.game_id # NoId
          /\ q.game_id = row.game_id
          /\ q.check_date = row.check_date
          /\ q.locale = row.locale
          /\ q.edition = row.edition)

\* models.py 276: UniqueConstraint(game_id, user_id)
WishUniqueOk(wishes, row) ==
    \A w \in wishes : ~(w.game_id = row.game_id /\ w.user_id = row.user_id)

NoGame == [id |-> NoId]
NoInfo == [concept_id |-> Null]
NoWish == [user_id |-> NoUser, game_id |-> NoId]
NoPending == [user |-> NoUser, prices |-> {}, wish |-> NoWish]
HasPending(pend) == pend # NoPending

\* (mutant) the row takes the place of the snapshots of its game and edition
merge_over(prices, row) ==
    {q \in prices : ~(q.game_id = row.game_id /\ q.locale = row.locale /\ q.edition = row.edition)}
        \cup {row}

\* models.py 357-358: session.merge of a Price that has no primary key: the
\* flush INSERTs it as a new row
merge(prices, row) == prices \cup {row}

RECURSIVE InsertPrices(_, _)
\* the INSERTs of the pending Price objects, one row each, each with a new id
InsertPrices(prices, rows) ==
    IF rows = {} THEN [ok |-> TRUE, prices |-> prices]
    ELSE LET r == CHOOSE x \in rows : TRUE
             row == [id |-> uuid4(prices)] @@ r
         IN  IF PriceUniqueOk(prices, row)
             THEN InsertPrices(merge(prices, row), rows \ {r})
             ELSE [ok |-> FALSE, prices |-> prices]

\* Session.flush(): the INSERTs of the objects added to the session since the
\* last flush, checked against what the connection sees
Flush(view, pend) ==
    LET userOk == pend.user = NoUser \/ pend.user \notin view.users
        users == IF pend.user = NoUser THEN view.users ELSE view.users \cup {pend.user}
        pr == InsertPrices(view.prices, pend.prices)
        wrow == [id |-> uuid4(view.wishes)] @@ pend.wish
        wishOk == pend.wish = NoWish \/ WishUniqueOk(view.wishes, wrow)
        wishes == IF pend.wish = NoWish THEN view.wishes ELSE view.wishes \cup {wrow}
    IN  [ok |-> userOk /\ pr.ok /\ wishOk,
         db |-> [view EXCEPT !.users = users, !.prices = pr.prices, !.wishes = wishes]]

\* what the session of request p reads
View(p) == IF lock = p THEN wdb ELSE db

\* BaseModel.get: query(cls).filter_by(**kwargs).one_or_none()
Game_get(view, key, value) ==
    LET found == {g \in view.games : g[key] = value}
    IN  IF found = {} THEN NoGame ELSE CHOOSE g \in found : TRUE

(***************************************************************************)
(* Requests.                                                               *)
(***************************************************************************)
NoRaw == Bare(<<>>)

\* the values Wish.delete returns: the row count of Query.delete(), or the
\* tuple (None, False) of models.py 318
RowCount(n) == [tuple |-> FALSE, count |-> n]
NoneFalse == [tuple |-> TRUE, count |-> 0]
\* bool(value), as del_game tests it: a tuple of two items is true, an int is
\* true when it is not 0
bool(value) == value.tuple \/ value.count # 0

Idle ==
    [kind |-> "idle", pc |-> "idle", user |-> NoUser, raw |-> NoRaw, game_id |-> Invalid,
     info |-> NoInfo, game |-> NoGame, created |-> FALSE, user_created |-> FALSE,
     returned |-> FALSE, pend |-> NoPending, todo |-> {}, fetches |-> 0, ownHit |-> FALSE,
     wished |-> FALSE, deleted |-> 0, was_deleted |-> RowCount(0), day |-> 0,
     selected |-> {}, done |-> {},
     pre |-> EmptyDb, prior |-> <<>>]

\* the identifiers the requests of the model are made with
RawMenu ==
    {Bare(C1), Bare(P1), Bare(C2), Url(PSN_URL, "ru-ru", "product", P1),
     Bare(<<"!", "!">>)}

\* the identifiers of concurrent requests: one product in its two namespaces
RaceMenu == {Bare(C1), Url(PSN_URL, "ru-ru", "product", P1)}

\* last: what the request that finished last returned, until the next request
\* arrives.  first: per identifier, the id of the entry that the first committed
\* request made with it created.  nreq: the requests so far.
NoEntry == [kind |-> "none"]

TypeOK ==
    /\ lock \in Procs \cup {NoLock}
    /\ today \in 1..MaxDay
    /\ DOMAIN req = Procs
    /\ nreq \in 0..(MaxRequests + MaxSeqRequests + MaxPriceRequests)
    /\ lock = NoLock => wdb = db

Init ==
    /\ db = EmptyDb
    /\ wdb = EmptyDb
    /\ lock = NoLock
    /\ today = 1
    /\ req = [p \in Procs |-> Idle]
    /\ nreq = 0
    /\ last = NoEntry
    /\ first = [raw \in RawMenu |-> NoId]

\* what a finished request returned (outcome: "ok" or the exception raised), and
\* what it did on the way
Entry(r, outcome, unchanged) ==
    [kind |-> r.kind, user |-> r.user, raw |-> r.raw, outcome |-> outcome, at |-> r.pc,
     selected |-> r.selected, done |-> r.done, pre |-> r.pre,
     game |-> r.game.id, returned |-> r.returned,
     created |-> r.created, fetches |-> r.fetches, ownHit |-> r.ownHit,
     wished |-> r.wished, deleted |-> r.deleted, was_deleted |-> r.was_deleted,
     info |-> r.info, day |-> r.day,
     prior |-> r.prior, unchanged |-> unchanged]

SameCatalog(a, b) == a.games = b.games /\ a.prices = b.prices

\* (mutant) the exception leaves session_scope with a commit of what was flushed
RaiseFrom_commit(p, r, error) ==
    /\ lock' = IF lock = p THEN NoLock ELSE lock
    /\ db' = IF lock = p THEN wdb ELSE db
    /\ wdb' = IF lock = p THEN wdb ELSE wdb
    /\ last' = Entry(r, error, SameCatalog(db', r.pre))
    /\ req' = [req EXCEPT ![p] = Idle]
    /\ UNCHANGED <<nreq, first>>

\* models.py 31-35: the exception leaves session_scope: rollback, close, raise
RaiseFrom(p, r, error) ==
    /\ lock' = IF lock = p THEN NoLock ELSE lock
    /\ wdb' = IF lock = p THEN db ELSE wdb
    /\ db' = db
    /\ last' = Entry(r, error, SameCatalog(db, r.pre))
    /\ req' = [req EXCEPT ![p] = Idle]
    /\ UNCHANGED <<nreq, first>>

Raise(p, error) == RaiseFrom(p, req[p], error)

\* the statements of a step ran on the connection of p: view is what it sees now
Wrote(p, view, wrote) ==
    /\ wdb' = IF wrote \/ lock = p THEN view ELSE wdb
    /\ lock' = IF wrote THEN p ELSE lock
    /\ db' = db

\* SQLite lets one connection write at a time
CanWrite(p) == lock \in {NoLock, p}

\* where Game.get_or_create returns to
AfterGame(kind) ==
    IF kind = "addWish" THEN "w_create"
    ELSE IF kind = "removeWish" THEN "w_delete"
    ELSE "commit"

\* models.py 355-358: one Price object per edition of the record; session.merge
\* of an object with no primary key adds a new object to the session
PriceObjects(game_id, info, day) ==
    {[game_id |-> game_id, check_date |-> day, locale |-> "ru-ru", edition |-> e,
      original_price |-> info.editions[e].original_price,
      sale_price |-> info.editions[e].sale_price] : e \in DOMAIN info.editions}

\* models.py 263: min([game.name, game_info.get('name', '')], key=len)
ShorterName(stored, fresh) == IF Len(fresh) < Len(stored) THEN fresh ELSE stored

\* models.py 367-372: Game outer join Price, check_date < today or no price row
StaleIds(view, day) ==
    {g.id : g \in {x \in view.games :
        \/ \A q \in view.prices : q.game_id # x.id
        \/ \E q \in view.prices : q.game_id = x.id /\ q.check_date < day}}

\* a request arrives: the session of p is new
Arrive(p, r) ==
    /\ req[p].kind = "idle"
    /\ req' = [req EXCEPT ![p] = [r EXCEPT !.pre = db, !.prior = first]]
    /\ nreq' = nreq + 1
    /\ last' = NoEntry
    /\ UNCHANGED <<db, wdb, lock, today, first>>

(***************************************************************************)
(* A request arrives.                                                      *)
(***************************************************************************)
\* a caller of Game.get_or_create opens session_scope
BeginResolve(p, raw) ==
    Arrive(p, [Idle EXCEPT !.kind = "resolve", !.pc = "g_own", !.raw = raw])

\* bot.py 61-65, models.py 286-290 (310-313 for Wish.delete): session_scope is
\* opened and User.get_or_create looks the user up, adding it when unknown
BeginWish(p, kind, user, raw) ==
    /\ kind \in {"addWish", "removeWish"}
    /\ LET known == user \in db.users
       IN  Arrive(p, [Idle EXCEPT !.kind = kind, !.pc = "g_own", !.user = user, !.raw = raw,
                                 !.user_created = ~known,
                                 !.pend = [NoPending EXCEPT !.user = IF known THEN NoUser ELSE user]])

\* bot.py 89-103: del_game opens session_scope and calls
\* Game.get_or_create(game_id, session=session); game_id is bound to the
\* parameter session, which the keyword gives again: the call raises TypeError
\* before any statement runs, session_scope rolls back, and the handler, which
\* catches ValueError only, ends with the error
del_game(p, user, raw) ==
    /\ req[p].kind = "idle"
    /\ nreq' = nreq + 1
    /\ last' = Entry([Idle EXCEPT !.kind = "del_game", !.user = user, !.raw = raw,
                                  !.pre = db, !.prior = first],
                     "TypeError", TRUE)
    /\ UNCHANGED <<db, wdb, lock, today, req, first>>

\* a caller of Price.update_price(game_id, session) opens session_scope
BeginRecord(p, g) ==
    /\ g \in db.games
    /\ Arrive(p, [Idle EXCEPT !.kind = "record", !.pc = "p_item", !.todo = {g.id},
                              !.selected = {g.id}, !.day = today])

\* models.py 361-372: update_prices opens session_scope and selects the games
BeginRefresh(p) ==
    LET ids == StaleIds(db, today)
    IN  Arrive(p, [Idle EXCEPT !.kind = "refresh", !.todo = ids, !.selected = ids,
                               !.day = today,
                               !.pc = IF ids = {} THEN "commit" ELSE "p_item"])

(***************************************************************************)
(* Game.get_or_create                                                      *)
(***************************************************************************)
\* (mutant) the row found is not returned: the page is fetched all the same
own_found_refetch(r, tok, game) ==
    [r EXCEPT !.pc = "g_fetch", !.game_id = tok, !.game = game, !.ownHit = TRUE,
              !.pend = NoPending]

\* models.py 232-234: the row found in the identifier's own column is returned
own_found(r, tok, game) ==
    [r EXCEPT !.pc = AfterGame(r.kind), !.game_id = tok, !.game = game,
              !.created = FALSE, !.ownHit = TRUE, !.returned = TRUE, !.pend = NoPending]

\* models.py 214-234: the identifier is checked, then looked up in its own column
\* (the query flushes the user that User.get_or_create added)
Game_get_or_create_own(p) ==
    LET r == req[p]
        tok == game_id_of(r.raw)
        f == Flush(View(p), r.pend)
        game == Game_get(f.db, id_type_of(tok), tok)
    IN  /\ r.pc = "g_own"
        /\ \/ /\ tok = Invalid
              /\ Raise(p, "ValueError:invalid")
              /\ UNCHANGED today
           \/ /\ tok # Invalid
              /\ HasPending(r.pend) => CanWrite(p)
              /\ ~f.ok
              /\ Raise(p, "IntegrityError")
              /\ UNCHANGED today
           \/ /\ tok # Invalid
              /\ HasPending(r.pend) => CanWrite(p)
              /\ f.ok
              /\ Wrote(p, f.db, HasPending(r.pend))
              /\ req' = [req EXCEPT ![p] =
                    IF game # NoGame
                    THEN own_found(r, tok, game)
                    ELSE [r EXCEPT !.pc = "g_fetch", !.game_id = tok, !.pend = NoPending]]
              /\ UNCHANGED <<today, nreq, last, first>>

\* models.py 235-243: the page is fetched, then the record's concept is looked up
Game_get_or_create_fetch(p) ==
    LET r == req[p]
        results == IF isnumeric(r.game_id) THEN get_game_info(r.game_id, Null, today)
                   ELSE get_game_info(Null, r.game_id, today)
    IN  /\ r.pc = "g_fetch"
        /\ \E res \in results :
            \/ /\ ~res.ok
               /\ RaiseFrom(p, [r EXCEPT !.fetches = r.fetches + 1],
                            IF res.error = "StopIteration" THEN "ValueError:unknown" ELSE "Crash")
               /\ UNCHANGED today
            \/ /\ res.ok
               /\ LET game == Game_get(View(p), "concept_id", info_get(res.info, "concept_id"))
                  IN  req' = [req EXCEPT ![p] =
                        [r EXCEPT !.info = res.info, !.game = game, !.fetches = r.fetches + 1,
                                  !.pc = IF game = NoGame THEN "g_create" ELSE "g_merge"]]
               /\ UNCHANGED <<db, wdb, lock, today, nreq, last, first>>

\* models.py 72-84, 245-254: Game.create looks for a row with exactly these
\* columns; one that is there is returned (and update_price gets its id)
Game_create(p) ==
    LET r == req[p]
        same == {g \in View(p).games :
                    /\ g.product_id = info_get(r.info, "product_id")
                    /\ g.concept_id = info_get(r.info, "concept_id")
                    /\ g.name = r.info.name
                    /\ g.poster_url = info_get(r.info, "poster_url")}
    IN  /\ r.pc = "g_create"
        /\ req' = [req EXCEPT ![p] =
                IF same = {} THEN [r EXCEPT !.pc = "g_insert"]
                ELSE LET game == CHOOSE g \in same : TRUE
                     IN  [r EXCEPT !.pc = AfterGame(r.kind), !.game = game, !.created = FALSE,
                                   !.returned = TRUE, !.day = today,
                                   !.pend.prices = PriceObjects(game.id, r.info, today)]]
        /\ UNCHANGED <<db, wdb, lock, today, nreq, last, first>>

\* models.py 79-81, 253, 347-358: the new Game is added to the session with no id
\* yet (the column default runs at the INSERT); Price.update_price is called with
\* that id, its Game.get flushes the INSERT, and its Price objects carry the id it
\* was called with
Game_insert(p) ==
    LET r == req[p]
        instance == [id |-> NoId,
                     product_id |-> info_get(r.info, "product_id"),
                     concept_id |-> info_get(r.info, "concept_id"),
                     name |-> r.info.name,
                     poster_url |-> info_get(r.info, "poster_url")]
        view == View(p)
        row == [instance EXCEPT !.id = uuid4(view.games)]
    IN  /\ r.pc = "g_insert"
        /\ CanWrite(p)
        /\ \/ /\ ~GameUniqueOk(view.games, row)
              /\ Raise(p, "IntegrityError")
           \/ /\ GameUniqueOk(view.games, row)
              /\ Wrote(p, [view EXCEPT !.games = view.games \cup {row}], TRUE)
              /\ req' = [req EXCEPT ![p] =
                    [r EXCEPT !.pc = AfterGame(r.kind), !.game = row, !.created = TRUE,
                              !.returned = TRUE, !.day = today,
                              !.pend.prices = PriceObjects(instance.id, r.info, today)]]
              /\ UNCHANGED <<nreq, last, first>>
        /\ UNCHANGED today

\* models.py 258-265: a second session updates the name and commits at once; the
\* UPDATE waits for the write lock, which the request's own first session may hold
Game_merge(p) ==
    LET r == req[p]
        name == ShorterName(r.game.name, info_get(r.info, "name"))
        games == {IF g.concept_id = r.game.concept_id THEN [g EXCEPT !.name = name] ELSE g
                  : g \in db.games}
    IN  /\ r.pc = "g_merge"
        /\ \/ /\ lock = p
              /\ Raise(p, "OperationalError")
           \/ /\ lock = NoLock
              /\ db' = [db EXCEPT !.games = games]
              /\ wdb' = db'
              /\ req' = [req EXCEPT ![p] = [r EXCEPT !.pc = AfterGame(r.kind), !.created = FALSE,
                                                     !.returned = TRUE]]
              /\ UNCHANGED <<lock, nreq, last, first>>
        /\ UNCHANGED today

(***************************************************************************)
(* Wish.get_or_create, Wish.delete                                         *)
(***************************************************************************)
\* models.py 292-298, 72-84: Wish.create looks the wish up (the query flushes the
\* Price objects) and adds it when it is not there.  An IntegrityError of that
\* flush is caught, wish is None, and add_game fails on wish.game_id.
Wish_create(p) ==
    LET r == req[p]
        f == Flush(View(p), r.pend)
        found == {w \in f.db.wishes : w.user_id = r.user /\ w.game_id = r.game.id}
    IN  /\ r.pc = "w_create"
        /\ HasPending(r.pend) => CanWrite(p)
        /\ \/ /\ ~f.ok
              /\ Raise(p, "AttributeError")
           \/ /\ f.ok
              /\ Wrote(p, f.db, HasPending(r.pend))
              /\ req' = [req EXCEPT ![p] =
                    [r EXCEPT !.pc = "commit", !.wished = (found = {}),
                              !.pend = IF found = {}
                                       THEN [NoPending EXCEPT
                                                !.wish = [user_id |-> r.user, game_id |-> r.game.id]]
                                       ELSE NoPending]]
              /\ UNCHANGED <<nreq, last, first>>
        /\ UNCHANGED today

\* (mutant) the games of the deleted wishes go with them
query_delete_games(view, gone) ==
    [view EXCEPT !.wishes = view.wishes \ gone,
                 !.games = {g \in view.games : \A w \in gone : w.game_id # g.id}]

\* models.py 316: session.query(Wish).filter(...).delete()
query_delete(view, gone) == [view EXCEPT !.wishes = view.wishes \ gone]

\* models.py 315-319: the wish is deleted unless the user or the game is new
Wish_delete(p) ==
    LET r == req[p]
        f == Flush(View(p), r.pend)
        gone == {w \in f.db.wishes : w.user_id = r.user /\ w.game_id = r.game.id}
    IN  /\ r.pc = "w_delete"
        /\ \/ /\ r.user_created \/ r.created
              /\ req' = [req EXCEPT ![p] = [r EXCEPT !.pc = "commit", !.was_deleted = NoneFalse]]
              /\ UNCHANGED <<db, wdb, lock, nreq, last, first>>
           \/ /\ ~(r.user_created \/ r.created)
              /\ CanWrite(p)
              /\ ~f.ok
              /\ Raise(p, "IntegrityError")
           \/ /\ ~(r.user_created \/ r.created)
              /\ CanWrite(p)
              /\ f.ok
              /\ Wrote(p, query_delete(f.db, gone), TRUE)
              /\ req' = [req EXCEPT ![p] =
                    [r EXCEPT !.pc = "commit", !.deleted = Cardinality(gone),
                              !.was_deleted = RowCount(Cardinality(gone)), !.pend = NoPending]]
              /\ UNCHANGED <<nreq, last, first>>
        /\ UNCHANGED today

(***************************************************************************)
(* Price.update_price, Price.update_prices                                 *)
(***************************************************************************)
\* models.py 347-358 (called from 374 for each selected game): the game is read
\* (the query flushes the Price objects of the game before), its page is fetched
\* and a Price object per edition is merged into the session.  Nothing catches
\* an exception of the fetch.
Price_update_price(p) ==
    LET r == req[p]
        f == Flush(View(p), r.pend)
    IN  /\ r.pc = "p_item"
        /\ HasPending(r.pend) => CanWrite(p)
        /\ \/ /\ ~f.ok
              /\ Raise(p, "IntegrityError")
           \/ /\ f.ok
              /\ \E game_id \in r.todo :
                    LET game == Game_get(f.db, "id", game_id)
                    IN  \E res \in get_game_info(game.concept_id, Null, today) :
                            \/ /\ ~res.ok
                               /\ RaiseFrom(p, [r EXCEPT !.fetches = r.fetches + 1], res.error)
                            \/ /\ res.ok
                               /\ Wrote(p, f.db, HasPending(r.pend))
                               /\ req' = [req EXCEPT ![p] =
                                    [r EXCEPT !.todo = r.todo \ {game_id},
                                              !.fetches = r.fetches + 1, !.day = today,
                                              !.info = res.info, !.game = game,
                                              !.done = r.done \cup {game_id},
                                              !.pc = IF r.todo = {game_id} THEN "commit" ELSE "p_item",
                                              !.pend = [NoPending EXCEPT
                                                  !.prices = PriceObjects(game_id, res.info, today)]]]
                               /\ UNCHANGED <<nreq, last, first>>
        /\ UNCHANGED today

(***************************************************************************)
(* session_scope                                                           *)
(***************************************************************************)
\* models.py 30, 35 (bot.py 66-76 before it for add_game): commit flushes what is
\* pending and commits; an IntegrityError of the flush rolls back and is raised
session_scope_commit(p) ==
    LET r == req[p]
        f == Flush(View(p), r.pend)
    IN  /\ r.pc = "commit"
        /\ HasPending(r.pend) => CanWrite(p)
        /\ \/ /\ ~f.ok
              /\ Raise(p, "IntegrityError")
           \/ /\ f.ok
              /\ db' = IF HasPending(r.pend) \/ lock = p THEN f.db ELSE db
              /\ wdb' = IF HasPending(r.pend) \/ lock = p THEN f.db ELSE wdb
              /\ lock' = IF lock = p THEN NoLock ELSE lock
              /\ last' = Entry(r, "ok", SameCatalog(db', r.pre))
              /\ first' = IF r.created /\ r.raw \in RawMenu /\ first[r.raw] = NoId
                          THEN [first EXCEPT ![r.raw] = r.game.id]
                          ELSE first
              /\ req' = [req EXCEPT ![p] = Idle]
              /\ UNCHANGED nreq
        /\ UNCHANGED today

\* the statement p is about to run writes
NeedsWrite(p) ==
    LET r == req[p]
    IN  \/ r.pc \in {"g_insert", "g_merge"}
        \/ r.pc = "w_delete" /\ ~(r.user_created \/ r.created)
        \/ r.pc \in {"w_create", "p_item", "commit"} /\ HasPending(r.pend)
        \/ r.pc = "g_own" /\ HasPending(r.pend) /\ game_id_of(r.raw) # Invalid

\* sqlite3's busy timeout: another connection kept the write lock for too long
\* ("database is locked")
Busy(p) ==
    /\ NeedsWrite(p)
    /\ lock \notin {NoLock, p}
    /\ Raise(p, "OperationalError")
    /\ UNCHANGED today

\* midnight: date.today() changes
Tick ==
    /\ today < MaxDay
    /\ today' = today + 1
    /\ UNCHANGED <<db, wdb, lock, req, nreq, last, first>>

\* midnight between two requests
Midnight ==
    /\ \A p \in Procs : req[p].kind = "idle"
    /\ Tick

\* a request of the bot arrives at worker p
WishRequest(p, menu) ==
    \/ \E raw \in menu : BeginResolve(p, raw)
    \/ \E kind \in {"addWish", "removeWish"}, user \in Users, raw \in menu :
            BeginWish(p, kind, user, raw)

\* a request of the price recorder arrives at worker p
PriceRequest(p) ==
    \/ \E g \in db.games : BeginRecord(p, g)
    \/ BeginRefresh(p)

\* worker p runs the next statement of its request
Step(p) ==
    \/ Game_get_or_create_own(p)
    \/ Game_get_or_create_fetch(p)
    \/ Game_create(p)
    \/ Game_insert(p)
    \/ Game_merge(p)
    \/ Wish_create(p)
    \/ Wish_delete(p)
    \/ Price_update_price(p)
    \/ session_scope_commit(p)

\* worker threads: the requests interleave statement by statement
Next ==
    \/ \E p \in Procs : nreq < MaxRequests /\ WishRequest(p, RaceMenu)
    \/ \E p \in Procs : nreq < MaxRequests /\ PriceRequest(p)
    \/ \E p \in Procs : Step(p)
    \/ \E p \in Procs : Busy(p)
    \/ Midnight

Spec == Init /\ [][Next]_vars

\* one worker: one request at a time
NextSeq ==
    \/ nreq < MaxSeqRequests /\ WishRequest("p1", RawMenu)
    \/ nreq < MaxSeqRequests /\ PriceRequest("p1")
    \/ nreq < MaxSeqRequests /\ \E user \in Users, raw \in RawMenu : del_game("p1", user, raw)
    \/ Step("p1")
    \/ Tick

SeqSpec == Init /\ [][NextSeq]_vars

\* the tokens of at most MaxLen characters, and the identifiers made of them
MaxLen == 2
NormChars == TokenChars \cup {"!"}
Tokens == UNION {[1..n -> NormChars] : n \in 0..MaxLen}
UrlTokens == {C1, P1, <<"A", "_">>, <<"1/2">>, <<"!">>}
NormMenu ==
    {Bare(t) : t \in Tokens} \cup
    {Url(h, l, sec, t) : h \in {PSN_URL, "example.com"}, l \in {"ru-ru", "RU"},
                         sec \in {"concept", "product", "other"}, t \in UrlTokens}

MaxNormRequests == 2

\* one worker, resolutions of identifiers of every shape
NextNorm ==
    \/ nreq < MaxNormRequests /\ \E raw \in NormMenu : BeginResolve("p1", raw)
    \/ Game_get_or_create_own("p1")
    \/ Game_get_or_create_fetch("p1")
    \/ Game_create("p1")
    \/ Game_insert("p1")
    \/ Game_merge("p1")
    \/ session_scope_commit("p1")

NormSpec == Init /\ [][NextNorm]_vars

MaxWishRequests == 2

\* worker threads that serve the wishlist commands of the users
NextWish ==
    \/ \E p \in Procs : /\ nreq < MaxWishRequests
                         /\ \E kind \in {"addWish", "removeWish"}, user \in Users, raw \in RaceMenu :
                                BeginWish(p, kind, user, raw)
    \/ \E p \in Procs : /\ nreq < MaxWishRequests
                         /\ \E user \in Users, raw \in RaceMenu : del_game(p, user, raw)
    \/ \E p \in Procs : Game_get_or_create_own(p)
    \/ \E p \in Procs : Game_get_or_create_fetch(p)
    \/ \E p \in Procs : Game_create(p)
    \/ \E p \in Procs : Game_insert(p)
    \/ \E p \in Procs : Game_merge(p)
    \/ \E p \in Procs : Wish_create(p)
    \/ \E p \in Procs : Wish_delete(p)
    \/ \E p \in Procs : session_scope_commit(p)
    \/ \E p \in Procs : Busy(p)

WishSpec == Init /\ [][NextWish]_vars

MaxAddRequests == 3

\* one worker that serves the wishlist commands, with identifiers of every kind
NextAdd ==
    \/ /\ nreq < MaxAddRequests
       /\ \E kind \in {"addWish", "removeWish"}, user \in Users, raw \in RawMenu :
                BeginWish("p1", kind, user, raw)
    \/ Game_get_or_create_own("p1")
    \/ Game_get_or_create_fetch("p1")
    \/ Game_create("p1")
    \/ Game_insert("p1")
    \/ Game_merge("p1")
    \/ Wish_create("p1")
    \/ Wish_delete("p1")
    \/ session_scope_commit("p1")

AddSpec == Init /\ [][NextAdd]_vars

MaxMergeRequests == 3

\* worker threads that resolve one product by its two identifiers
NextMerge ==
    \/ \E p \in Procs : nreq < MaxMergeRequests /\ \E raw \in RaceMenu : BeginResolve(p, raw)
    \/ \E p \in Procs : Game_get_or_create_own(p)
    \/ \E p \in Procs : Game_get_or_create_fetch(p)
    \/ \E p \in Procs : Game_create(p)
    \/ \E p \in Procs : Game_insert(p)
    \/ \E p \in Procs : Game_merge(p)
    \/ \E p \in Procs : session_scope_commit(p)
    \/ \E p \in Procs : Busy(p)

MergeSpec == Init /\ [][NextMerge]_vars

\* one worker, the price recorder and the resolutions that fill the catalogue
NextPrice ==
    \/ nreq < MaxPriceRequests /\ \E raw \in {Bare(C1), Bare(C2)} : BeginResolve("p1", raw)
    \/ nreq < MaxPriceRequests /\ PriceRequest("p1")
    \/ Game_get_or_create_own("p1")
    \/ Game_get_or_create_fetch("p1")
    \/ Game_create("p1")
    \/ Game_insert("p1")
    \/ Price_update_price("p1")
    \/ session_scope_commit("p1")
    \/ Tick

PriceSpec == Init /\ [][NextPrice]_vars

(***************************************************************************)
(* Properties.  last is the request that finished last.                    *)
(***************************************************************************)
Finished == last.kind # "none"

\* the requests that call Game.get_or_create (resolve)
Resolves == Finished /\ last.kind \in {"resolve", "addWish", "removeWish"}

\* the page fetch of the request returned no record
ExtractorErrors == {"ValueError:unknown", "Crash", "StopIteration"}

\* the storefront's concept of an identifier
ConceptOfRaw(raw) ==
    LET tok == game_id_of(raw)
    IN  IF isnumeric(tok) THEN tok ELSE ConceptOfProduct(tok)

RowsOfConcept(concept) == {g \in db.games : g.concept_id = concept}

\* C1: resolve is idempotent.  A request made with an identifier with which an
\* earlier, committed request created an entry (wasCreated = true) gets the same
\* entry back from resolve, with wasCreated = false, whenever the extractor
\* returns a record, and the catalogue then holds exactly one row of it.
C1_ResolveIdempotent ==
    (/\ Resolves
     /\ last.prior[last.raw] # NoId
     /\ last.outcome \notin ExtractorErrors)
    => /\ last.returned
       /\ last.game = last.prior[last.raw]
       /\ ~last.created
       /\ Cardinality(RowsOfConcept(ConceptOfRaw(last.raw))) = 1

\* the identifiers of the other namespace that name the same product
Twins(raw) ==
    {t \in RawMenu :
        /\ game_id_of(t) # Invalid
        /\ game_id_of(raw) # Invalid
        /\ id_type_of(game_id_of(t)) # id_type_of(game_id_of(raw))
        /\ ConceptOfRaw(t) = ConceptOfRaw(raw)}

\* C2: cross-namespace dedup.  After a committed resolve by product ID P (of
\* concept C) created the entry, a resolve by C returns that entry, and after a
\* resolve by C created it, a resolve by P returns it; one row is left.
C2_CrossNamespace ==
    (Resolves /\ last.outcome \notin ExtractorErrors)
    => \A t \in Twins(last.raw) :
            last.prior[t] # NoId
            => /\ last.returned
               /\ last.game = last.prior[t]
               /\ Cardinality(RowsOfConcept(ConceptOfRaw(last.raw))) = 1

\* C4: the row that resolve inserts carries the concept ID and the product ID of
\* the record, so that the product ID the caller gave is in its product_id
\* column and a later resolve by it is answered by the own-ID lookup.
C4_BothIdsStored ==
    /\ (Resolves /\ last.created /\ last.outcome = "ok")
       => \A g \in db.games :
            g.id = last.game
            => /\ g.concept_id = last.info.concept_id
               /\ g.product_id # Null
               /\ id_type_of(game_id_of(last.raw)) = "product_id"
                    => g.product_id = game_id_of(last.raw)
    /\ (/\ Resolves
        /\ last.prior[last.raw] # NoId
        /\ last.returned
        /\ id_type_of(game_id_of(last.raw)) = "product_id")
       => last.ownHit

\* C6: after a resolve that created an entry has committed, every edition of the
\* record has a price row of that entry (game_id = its id), dated the day of the
\* call, with the edition's prices.
C6_FirstSnapshot ==
    (Resolves /\ last.created /\ last.outcome = "ok")
    => \A e \in DOMAIN last.info.editions :
        \E q \in db.prices :
            /\ q.game_id = last.game
            /\ q.check_date = last.day
            /\ q.edition = e
            /\ q.original_price = last.info.editions[e].original_price
            /\ q.sale_price = last.info.editions[e].sale_price

\* C3: no two committed catalogue rows share a non-null concept_id, and no two
\* share a non-null product_id, whatever requests ran and however they
\* interleaved.
C3_UniqueIds ==
    \A g1 \in db.games, g2 \in db.games :
        g1 # g2
        => /\ ~(g1.concept_id # Null /\ g1.concept_id = g2.concept_id)
           /\ ~(g1.product_id # Null /\ g1.product_id = g2.product_id)

\* C3's case: an INSERT of a second row of a catalogued concept was refused
C3_Witness ==
    /\ Finished
    /\ last.at = "g_insert"
    /\ last.outcome = "IntegrityError"
    /\ RowsOfConcept(last.info.concept_id) # {}

\* C5: a resolve whose identifier is found in its own column (concept_id for a
\* numeric identifier, product_id otherwise, after the URL is reduced) returns
\* that row with wasCreated = false, fetches no page, and its session writes
\* neither a catalogue row nor a price row.
C5_OwnHit ==
    /\ \A p \in Procs :
        req[p].ownHit
        => /\ req[p].returned
           /\ ~req[p].created
           /\ req[p].fetches = 0
           /\ req[p].game[id_type_of(req[p].game_id)] = req[p].game_id
           /\ req[p].game_id = game_id_of(req[p].raw)
           /\ req[p].pend.prices = {}
           /\ lock = p => SameCatalog(wdb, db)
    /\ (Finished /\ last.ownHit)
        => /\ last.returned
           /\ ~last.created
           /\ last.fetches = 0
           /\ last.game \in {g.id : g \in db.games}

\* C5's case: a request whose own-ID lookup hit has finished
C5_Witness ==
    /\ Finished
    /\ last.ownHit
    /\ last.outcome = "ok"

\* C10: of two requests that both passed the not-found lookups and attempted
\* the INSERT of the same entry, the one that finds the other's committed row
\* in its way gets no storage-conflict error: it re-reads that row and returns
\* it with wasCreated = false.
C10_LoserFallsBack ==
    (/\ Finished
     /\ last.at = "g_insert"
     /\ RowsOfConcept(last.info.concept_id) # {})
    => /\ last.outcome \notin {"IntegrityError", "OperationalError"}
       /\ last.returned
       /\ ~last.created

\* the price rows of an entry for a day and an edition
RowsOfKey(game_id, day, edition) ==
    {q \in db.prices :
        q.game_id = game_id /\ q.check_date = day /\ q.locale = "ru-ru" /\ q.edition = edition}

\* C7: recordSnapshot is an upsert.  A call for an entry that already has price
\* rows of the day succeeds, and leaves one row per (entry, day, locale,
\* edition), which holds the values of this call.
C7_Upsert ==
    (/\ Finished
     /\ last.kind = "record"
     /\ last.outcome \notin ExtractorErrors
     /\ \E q \in last.pre.prices : q.game_id = last.game /\ q.check_date = last.day)
    => /\ last.outcome = "ok"
       /\ \A e \in DOMAIN last.info.editions :
            /\ Cardinality(RowsOfKey(last.game, last.day, e)) = 1
            /\ \A q \in RowsOfKey(last.game, last.day, e) :
                    /\ q.original_price = last.info.editions[e].original_price
                    /\ q.sale_price = last.info.editions[e].sale_price

\* the entries whose latest price row is older than day, or that have none
StaleEntries(view, day) ==
    {g.id : g \in {x \in view.games :
        \A q \in view.prices : q.game_id = x.id => q.check_date < day}}

\* C8: refreshStale takes exactly the entries whose latest snapshot is older
\* than today or that have none; an entry with a snapshot of today is not taken.
C8_OnlyStale ==
    \A p \in Procs :
        (req[p].kind = "refresh" /\ req[p].fetches = 0)
        => req[p].selected = StaleEntries(req[p].pre, req[p].day)

\* C9: in a sweep over several stale entries an extractor failure of one entry
\* does not end the sweep: the sweep does not raise, and every entry whose page
\* was read has its price rows of the day in the committed store.
C9_SweepGoesOn ==
    (Finished /\ last.kind = "refresh" /\ Cardinality(last.selected) >= 2)
    => /\ last.outcome \notin ExtractorErrors
       /\ \A g \in last.done : \E q \in db.prices : q.game_id = g /\ q.check_date = last.day

\* the classification the Identifier Normalizer is to make
AlnumHyphen(tok) == Len(tok) > 0 /\ \A i \in 1..Len(tok) : tok[i] \in {"1", "2", "A", "-"}

NormalizeKind(raw) ==
    LET ok == /\ AlnumHyphen(raw.tok)
              /\ raw.form = "url"
                    => /\ raw.host = PSN_URL
                       /\ raw.locale = "ru-ru"
                       /\ \/ raw.section = "concept" /\ AllDigits(raw.tok)
                          \/ raw.section = "product"
    IN  IF ~ok THEN "InvalidIdentifier"
        ELSE IF AllDigits(raw.tok) THEN "concept_id" ELSE "product_id"

\* C11: normalize classifies a bare token of digits only as Concept and every
\* other bare token of letters, digits and hyphens as Product, reduces a URL of
\* the storefront host with a path /{locale}/(concept/{digits}|product/{token})
\* to its last segment and classifies that by the same rule, and fails with
\* InvalidIdentifier on every other input, before any fetch and with the store
\* left as it was.
C11_Normalize ==
    /\ \A p \in Procs :
        req[p].pc \notin {"idle", "g_own"}
        => /\ NormalizeKind(req[p].raw) = id_type_of(req[p].game_id)
           /\ req[p].game_id = req[p].raw.tok
    /\ (Finished /\ last.at = "g_own")
       => /\ last.outcome = "ValueError:invalid" <=> NormalizeKind(last.raw) = "InvalidIdentifier"
          /\ last.outcome = "ValueError:invalid" => last.fetches = 0 /\ last.unchanged

\* C12: when the extractor gives no complete record for an identifier that is
\* not in the catalogue, resolve ends in the typed failure that the callers
\* report to the user (ValueError), never in another error, and the catalogue
\* is as it was before the request.
C12_TypedFailure ==
    (Resolves /\ last.at = "g_fetch")
    => /\ last.outcome = "ValueError:unknown"
       /\ ~last.returned
       /\ last.unchanged

\* request p takes the merge branch in this step and returns the entry
Merges(p) == req[p].pc = "g_merge" /\ req'[p].returned

\* C13: the merge keeps the entry with its id, concept ID and poster, and the
\* name stored after it is the shorter of the name stored before it and the
\* name just extracted, the stored one on a tie, and is not empty.
C13_MergeName ==
    [][\A p \in Procs :
        Merges(p)
        => \A g \in db.games :
            g.concept_id = req[p].game.concept_id
            => \E h \in db'.games :
                /\ h.id = g.id
                /\ h.concept_id = g.concept_id
                /\ h.poster_url = g.poster_url
                /\ h.name = ShorterName(g.name, req[p].info.name)
                /\ h.name # <<>>]_vars

\* the wishes of a user for the entry of a concept
WishesOf(view, user, concept) ==
    {w \in view.wishes :
        /\ w.user_id = user
        /\ \E g \in view.games : g.id = w.game_id /\ g.concept_id = concept}

\* C14: there is at most one wish per user and entry.  An addWish whose
\* identifier (concept ID, product ID or URL) names an entry the extractor can
\* read succeeds; when the pair was on the wishlist it adds no row and reports
\* wasNewWish = false, otherwise it adds exactly one row and reports true.
C14_WishUnique ==
    /\ \A w1, w2 \in db.wishes :
            (w1.user_id = w2.user_id /\ w1.game_id = w2.game_id) => w1 = w2
    /\ (/\ Finished
        /\ last.kind = "addWish"
        /\ last.outcome \notin ExtractorErrors \cup {"ValueError:invalid"})
       => LET concept == ConceptOfRaw(last.raw)
              had == WishesOf(last.pre, last.user, concept) # {}
          IN  /\ last.outcome = "ok"
              /\ last.wished = ~had
              /\ Cardinality(WishesOf(db, last.user, concept)) = 1
              /\ Cardinality(db.wishes) = Cardinality(last.pre.wishes) + (IF had THEN 0 ELSE 1)

\* C15: catalogue rows are never deleted: a committed entry is in the catalogue
\* with the same id and concept ID after every step, whatever the requests do,
\* also when its last wish is removed.
C15_NeverDeleted ==
    [][\A g \in db.games :
        \E h \in db'.games : h.id = g.id /\ h.concept_id = g.concept_id]_vars

\* a removal has taken the last wish for an entry, which is still there
C15_Witness ==
    /\ Finished
    /\ last.kind = "removeWish"
    /\ last.outcome = "ok"
    /\ last.deleted > 0
    /\ \E g \in db.games : g.id = last.game /\ \A w \in db.wishes : w.game_id # g.id

\* C16: a committed price row of a past date stays as it is, whatever
\* recordSnapshot, refreshStale and resolve do, and every Price object that
\* update_price makes is dated today.
C16_PastImmutable ==
    [][/\ \A q \in db.prices : q.check_date < today => q \in db'.prices
       /\ \A p \in Procs : \A o \in req'[p].pend.prices :
            o \in req[p].pend.prices \/ o.check_date = today]_vars

\* a snapshot was recorded for an entry that has a snapshot of an earlier day
C16_Witness ==
    /\ Finished
    /\ last.kind \in {"record", "refresh"}
    /\ last.outcome = "ok"
    /\ \E q \in last.pre.prices, n \in db.prices \ last.pre.prices :
            /\ q.game_id = n.game_id
            /\ q.edition = n.edition
            /\ q.check_date < n.check_date
            /\ q \in db.prices

\* C17: resolve works in the transaction of the request that calls it: with one
\* request at a time, the committed catalogue is the one the request found
\* until the request commits, and it is that one still when the request ends
\* with an error.
C17_SingleTransaction ==
    /\ \A p \in Procs :
        req[p].kind \in {"resolve", "addWish", "removeWish"} => db.games = req[p].pre.games
    /\ (Resolves /\ last.outcome # "ok") => db.games = last.pre.games

\* C18: a request that is about to fetch a page holds no write lock: none of
\* its writes (the user row, catalogue rows) is flushed and uncommitted or
\* waiting in its session.
C18_NoLockAcrossFetch ==
    \A p \in Procs :
        req[p].pc = "g_fetch" => lock # p /\ ~HasPending(req[p].pend)

\* C19: removeWish reports wasRemoved = true exactly when the user had a wish
\* for the entry before the call and has none after it (so not for a user it
\* has just added, nor for an entry it has just created), and the wishes of
\* other users and for other entries are left as they were.
C19_RemoveWish ==
    (Finished /\ last.kind = "removeWish" /\ last.outcome = "ok")
    => LET concept == ConceptOfRaw(last.raw)
           before == WishesOf(last.pre, last.user, concept)
       IN  /\ bool(last.was_deleted)
                <=> (before # {} /\ WishesOf(db, last.user, concept) = {})
           /\ db.wishes = last.pre.wishes \ before

\* C20: a request that takes the merge branch holds no uncommitted write of
\* its own when the second session issues the name UPDATE, and with one request
\* at a time no request ends at the merge: it cannot wait for its own lock.
C20_MergeCompletes ==
    /\ \A p \in Procs : req[p].pc = "g_merge" => lock # p
    /\ Finished => last.at # "g_merge"

\* C21: an addWish that fails with InvalidIdentifier or UnknownIdentifier (the
\* ValueError of Game.get_or_create) leaves the committed store as it was when
\* the request arrived: no user, game, wish or price row of the request stays.
C21_FailedAddWish ==
    (/\ Finished
     /\ last.kind = "addWish"
     /\ last.outcome \in {"ValueError:invalid", "ValueError:unknown"})
    => db = last.pre /\ wdb = db /\ lock = NoLock

\* an addWish of a new user failed after its user row had been flushed, with
\* rows of earlier requests in the store
C21_Witness ==
    /\ Finished
    /\ last.kind = "addWish"
    /\ last.outcome = "ValueError:unknown"
    /\ last.fetches = 1
    /\ last.user \notin last.pre.users
    /\ last.pre.games # {}

====
